---- MODULE Spec2Model ----
(***************************************************************************)
(* Model of backend/main.py: the de-identification, date-resolution and    *)
(* history pipeline behind POST /analyze_bloodwork and GET /history.       *)
(*                                                                         *)
(* Text is a sequence of one-character strings.  Python's None and the     *)
(* empty string are both the empty sequence: the code only ever tests them *)
(* by truthiness ("if name:", "name or ''", "if not lab_date").            *)
(***************************************************************************)
EXTENDS Integers, Sequences, FiniteSets, TLC

\* ------------------------------------------------------------------------
\* Characters
\* ------------------------------------------------------------------------
None == << >>

UpperSeq == <<"A", "B", "C", "D", "E", "F", "G", "H", "I", "J", "K", "L", "M", "N", "O", "P", "Q", "R", "S", "T", "U", "V", "W", "X", "Y", "Z">>
LowerSeq == <<"a", "b", "c", "d", "e", "f", "g", "h", "i", "j", "k", "l", "m", "n", "o", "p", "q", "r", "s", "t", "u", "v", "w", "x", "y", "z">>
DigitSeq == <<"0", "1", "2", "3", "4", "5", "6", "7", "8", "9">>

Upper == {UpperSeq[i] : i \in 1..Len(UpperSeq)}
Lower == {LowerSeq[i] : i \in 1..Len(LowerSeq)}
Letters == Upper \cup Lower
Digits == {DigitSeq[i] : i \in 1..Len(DigitSeq)}
\* \s of the re module (the ASCII members expressible as TLA+ characters)
Whitespace == {" ", "\t", "\n", "\r", "\f"}
\* \w of the re module: what \b tells apart from everything else
WordChars == Letters \cup Digits \cup {"_"}

ToLower(c) == IF c \in Upper THEN LowerSeq[CHOOSE i \in 1..Len(UpperSeq) : UpperSeq[i] = c] ELSE c

DigitVal(c) == (CHOOSE i \in 1..Len(DigitSeq) : DigitSeq[i] = c) - 1

\* int(s) of a string of decimal digits
RECURSIVE int(_)
int(s) == IF s = << >> THEN 0 ELSE 10 * int(SubSeq(s, 1, Len(s) - 1)) + DigitVal(s[Len(s)])

\* the string as one atom (used where a value is opaque: a digest, a key)
RECURSIVE Join(_)
Join(s) ==
    IF s = << >> THEN ""
    ELSE IF Len(s) = 1 THEN s[1]
    ELSE Join(SubSeq(s, 1, Len(s) \div 2)) \o Join(SubSeq(s, Len(s) \div 2 + 1, Len(s)))

\* a or b, of two strings
or_else(a, b) == IF a # None THEN a ELSE b

\* min(S)
Least(S) == CHOOSE q \in S : \A h \in S : q <= h

\* str.strip()
RECURSIVE lstrip(_)
lstrip(s) == IF s # << >> /\ s[1] \in Whitespace THEN lstrip(Tail(s)) ELSE s
RECURSIVE rstrip(_)
rstrip(s) == IF s # << >> /\ s[Len(s)] \in Whitespace THEN rstrip(SubSeq(s, 1, Len(s) - 1)) ELSE s
strip(s) == rstrip(lstrip(s))

\* s[p:].startswith(pat), p counted from 1
StartsWithAt(s, p, pat) == p + Len(pat) - 1 <= Len(s) /\ SubSeq(s, p, p + Len(pat) - 1) = pat

\* pat in s
Contains(s, pat) == \E p \in 1..(Len(s) + 1) : StartsWithAt(s, p, pat)

\* s.find(pat, p - 1) + 1: where pat first occurs at or after p, 0 if nowhere
Find(s, p, pat) ==
    LET hits == {q \in p..Len(s) : StartsWithAt(s, q, pat)}
    IN  IF hits = {} THEN 0 ELSE Least(hits)

\* s.count(pat): the non-overlapping occurrences, leftmost first
RECURSIVE CountFrom(_, _, _)
CountFrom(s, p, pat) ==
    IF pat = << >> \/ Find(s, p, pat) = 0 THEN 0
    ELSE 1 + CountFrom(s, Find(s, p, pat) + Len(pat), pat)
Count(s, pat) == CountFrom(s, 1, pat)

\* s.replace(pat, rep), and re.sub(re.escape(pat), rep, s) for a rep without
\* backslashes: every non-overlapping occurrence, leftmost first
RECURSIVE ReplaceFrom(_, _, _, _)
ReplaceFrom(s, p, pat, rep) ==
    IF Find(s, p, pat) = 0 THEN SubSeq(s, p, Len(s))
    ELSE SubSeq(s, p, Find(s, p, pat) - 1) \o rep
         \o ReplaceFrom(s, Find(s, p, pat) + Len(pat), pat, rep)
ReplaceAll(s, pat, rep) == IF pat = << >> THEN s ELSE ReplaceFrom(s, 1, pat, rep)

\* ------------------------------------------------------------------------
\* The re module: a backtracking matcher over a sequence of items.
\*   cls   a character class repeated min..max times (max ignored when
\*         inf), greedy
\*   lit   a literal, read without regard to case when icase (re.IGNORECASE)
\*   alt   an alternation, the branches tried left to right
\*   open / close   the parentheses of capture group g
\*   wb    \b
\* ------------------------------------------------------------------------
Cls(S, lo, hi) == [t |-> "cls", set |-> S, min |-> lo, max |-> hi, inf |-> FALSE]
One(S) == Cls(S, 1, 1)
Opt(S) == Cls(S, 0, 1)
Star(S) == [t |-> "cls", set |-> S, min |-> 0, max |-> 0, inf |-> TRUE]
Plus(S) == [t |-> "cls", set |-> S, min |-> 1, max |-> 0, inf |-> TRUE]
Alt(bs) == [t |-> "alt", branches |-> bs]
Open(g) == [t |-> "open", g |-> g]
Close(g) == [t |-> "close", g |-> g]
WB == [t |-> "wb"]
\* a literal, and a literal under re.IGNORECASE
Lit(s) == <<[t |-> "lit", s |-> s, icase |-> FALSE]>>
LitI(s) == <<[t |-> "lit", s |-> s, icase |-> TRUE]>>
AltLitI(ss) == Alt([i \in 1..Len(ss) |-> LitI(ss[i])])

NoMatch == [ok |-> FALSE, start |-> 0, end |-> 0, caps |-> << >>]
NoCaps == [g \in 1..3 |-> <<0, 0>>]

IsWordAt(s, p) == p >= 1 /\ p <= Len(s) /\ s[p] \in WordChars
\* \b before position p
AtBoundary(s, p) == IsWordAt(s, p - 1) # IsWordAt(s, p)

\* how many of s[p], s[p+1], ... are in S, counting at most cap of them
Run(s, p, S, cap) ==
    LET most == IF cap < Len(s) - p + 1 THEN cap ELSE Len(s) - p + 1
        fits == {n \in 0..most : \A j \in 0..(n - 1) : s[p + j] \in S}
    IN  CHOOSE n \in fits : \A k \in fits : k <= n

\* the literal lit stands at s[p]
LitAt(s, p, lit, icase) ==
    /\ p + Len(lit) - 1 <= Len(s)
    /\ \A j \in 1..Len(lit) :
          IF icase THEN ToLower(s[p + j - 1]) = ToLower(lit[j]) ELSE s[p + j - 1] = lit[j]

RECURSIVE MatchAt(_, _, _, _)
RECURSIVE TryCounts(_, _, _, _, _, _)
RECURSIVE TryAlts(_, _, _, _, _, _)
\* the items matched at p, the first way the backtracking search finds
MatchAt(items, s, p, caps) ==
    IF items = << >> THEN [ok |-> TRUE, start |-> 0, end |-> p, caps |-> caps]
    ELSE LET it == Head(items)
             rest == Tail(items)
         IN  CASE it.t = "cls" ->
                    LET n == Run(s, p, it.set, IF it.inf THEN Len(s) ELSE it.max)
                    IN  TryCounts(n, it.min, rest, s, p, caps)
               [] it.t = "lit" ->
                    IF LitAt(s, p, it.s, it.icase) THEN MatchAt(rest, s, p + Len(it.s), caps)
                    ELSE NoMatch
               [] it.t = "alt" -> TryAlts(it.branches, 1, rest, s, p, caps)
               [] it.t = "open" ->
                    MatchAt(rest, s, p, [caps EXCEPT ![it.g] = <<p, p>>])
               [] it.t = "close" ->
                    MatchAt(rest, s, p, [caps EXCEPT ![it.g] = <<caps[it.g][1], p>>])
               [] it.t = "wb" ->
                    IF AtBoundary(s, p) THEN MatchAt(rest, s, p, caps) ELSE NoMatch
\* greedy: k repetitions, then k-1, ... down to lo
TryCounts(k, lo, rest, s, p, caps) ==
    IF k < lo THEN NoMatch
    ELSE LET r == MatchAt(rest, s, p + k, caps)
         IN  IF r.ok THEN r ELSE TryCounts(k - 1, lo, rest, s, p, caps)
TryAlts(bs, i, rest, s, p, caps) ==
    IF i > Len(bs) THEN NoMatch
    ELSE LET r == MatchAt(bs[i] \o rest, s, p, caps)
         IN  IF r.ok THEN r ELSE TryAlts(bs, i + 1, rest, s, p, caps)

\* re.match(items, s)
match(items, s) == [MatchAt(items, s, 1, NoCaps) EXCEPT !.start = 1]

\* re.search(items, s[p-1:]): the leftmost match
SearchFrom(items, s, p) ==
    LET Leftmost(starts) ==
            IF starts = {} THEN NoMatch
            ELSE [MatchAt(items, s, Least(starts), NoCaps) EXCEPT !.start = Least(starts)]
    IN  Leftmost({q \in p..(Len(s) + 1) : MatchAt(items, s, q, NoCaps).ok})
search(items, s) == SearchFrom(items, s, 1)

\* m.group(g), m.group(0)
group(s, m, g) == SubSeq(s, m.caps[g][1], m.caps[g][2] - 1)
group0(s, m) == SubSeq(s, m.start, m.end - 1)

\* re.findall(items, s) of a pattern that matches no empty string
RECURSIVE FindAllFrom(_, _, _)
FindAllFrom(items, s, p) ==
    LET Matches(m) == IF ~m.ok THEN << >> ELSE <<group0(s, m)>> \o FindAllFrom(items, s, m.end)
    IN  Matches(SearchFrom(items, s, p))
findall(items, s) == FindAllFrom(items, s, 1)

\* re.sub(r"\s+", " ", s): a blank for the first character of every run of
\* whitespace, nothing for the rest of the run
collapse_whitespace(s) ==
    LET kept == {i \in 1..Len(s) : ~(s[i] \in Whitespace /\ i > 1 /\ s[i - 1] \in Whitespace)}
        nth(j) == CHOOSE i \in kept : Cardinality({k \in kept : k <= i}) = j
    IN  [j \in 1..Cardinality(kept) |-> IF s[nth(j)] \in Whitespace THEN " " ELSE s[nth(j)]]

\* ------------------------------------------------------------------------
\* Calendar dates: datetime(y, m, d), date.isoformat(), datetime.strptime
\* ------------------------------------------------------------------------
IsLeap(y) == (y % 4 = 0 /\ y % 100 # 0) \/ y % 400 = 0
DaysInMonth(y, m) ==
    IF m = 2 THEN (IF IsLeap(y) THEN 29 ELSE 28)
    ELSE IF m \in {4, 6, 9, 11} THEN 30 ELSE 31
\* datetime(y, m, d) does not raise ValueError
IsValidDate(y, m, d) ==
    /\ y >= 1 /\ y <= 9999
    /\ m >= 1 /\ m <= 12
    /\ d >= 1 /\ d <= DaysInMonth(y, m)

\* "%0<w>d" % n
RECURSIVE Pad(_, _)
Pad(n, w) == IF w = 0 THEN << >> ELSE Pad(n \div 10, w - 1) \o <<DigitSeq[(n % 10) + 1]>>
\* date(y, m, d).isoformat()
isoformat(y, m, d) == Pad(y, 4) \o <<"-">> \o Pad(m, 2) \o <<"-">> \o Pad(d, 2)

\* datetime(y, m, d).date().isoformat(), None where datetime raises
date_iso(y, m, d) == IF IsValidDate(y, m, d) THEN isoformat(y, m, d) ELSE None

\* calendar.month_name / month_abbr, lower-cased as _strptime.LocaleTime keeps them
MonthNames == <<<<"j", "a", "n", "u", "a", "r", "y">>, <<"f", "e", "b", "r", "u", "a", "r", "y">>, <<"m", "a", "r", "c", "h">>, <<"a", "p", "r", "i", "l">>, <<"m", "a", "y">>, <<"j", "u", "n", "e">>,
                <<"j", "u", "l", "y">>, <<"a", "u", "g", "u", "s", "t">>, <<"s", "e", "p", "t", "e", "m", "b", "e", "r">>, <<"o", "c", "t", "o", "b", "e", "r">>, <<"n", "o", "v", "e", "m", "b", "e", "r">>, <<"d", "e", "c", "e", "m", "b", "e", "r">>>>
MonthAbbrs == [i \in 1..12 |-> SubSeq(MonthNames[i], 1, 3)]
\* _strptime orders the names of an alternation longest first
MonthNamesByLength == <<MonthNames[9], MonthNames[2], MonthNames[11], MonthNames[12],
                        MonthNames[1], MonthNames[10], MonthNames[8], MonthNames[3],
                        MonthNames[4], MonthNames[6], MonthNames[7], MonthNames[5]>>

\* the regexes _strptime.TimeRE compiles the directives to (groups: 1 = Y,
\* 2 = m, B or b, 3 = d)
dirY == <<Open(1), Cls(Digits, 4, 4), Close(1)>>
dirm == <<Open(2), Alt(<<Lit(<<"1">>) \o <<One({"0", "1", "2"})>>,
                         Lit(<<"0">>) \o <<One(Digits \ {"0"})>>,
                         <<One(Digits \ {"0"})>> >>), Close(2)>>
dird == <<Open(3), Alt(<<Lit(<<"3">>) \o <<One({"0", "1"})>>,
                         <<One({"1", "2"}), One(Digits)>>,
                         Lit(<<"0">>) \o <<One(Digits \ {"0"})>>,
                         <<One(Digits \ {"0"})>>,
                         Lit(<<" ">>) \o <<One(Digits \ {"0"})>> >>), Close(3)>>
dirB == <<Open(2), AltLitI(MonthNamesByLength), Close(2)>>
dirb == <<Open(2), AltLitI(MonthAbbrs), Close(2)>>
\* a blank of the format matches \s+
fmtWs == <<Plus(Whitespace)>>

\* the formats of _parse_date_string, in its order
DateFormats ==
    << dirY \o Lit(<<"-">>) \o dirm \o Lit(<<"-">>) \o dird,                    \* %Y-%m-%d
       dirY \o Lit(<<"/">>) \o dirm \o Lit(<<"/">>) \o dird,                    \* %Y/%m/%d
       dirm \o Lit(<<"/">>) \o dird \o Lit(<<"/">>) \o dirY,                    \* %m/%d/%Y
       dird \o Lit(<<"/">>) \o dirm \o Lit(<<"/">>) \o dirY,                    \* %d/%m/%Y
       dirm \o Lit(<<"-">>) \o dird \o Lit(<<"-">>) \o dirY,                    \* %m-%d-%Y
       dird \o Lit(<<"-">>) \o dirm \o Lit(<<"-">>) \o dirY,                    \* %d-%m-%Y
       dirB \o fmtWs \o dird \o Lit(<<",">>) \o fmtWs \o dirY,               \* %B %d, %Y
       dirb \o fmtWs \o dird \o Lit(<<",">>) \o fmtWs \o dirY >>             \* %b %d, %Y

\* the month a group-2 match stands for: digits, a full name or an abbreviation
MonthOf(g) ==
    IF g[1] \in Digits THEN int(g)
    ELSE LET low == [i \in 1..Len(g) |-> ToLower(g[i])]
         IN  CHOOSE i \in 1..12 : low = MonthNames[i] \/ low = MonthAbbrs[i]

\* datetime.strptime(s, fmt).date().isoformat(), None where strptime raises:
\* no match, unconverted data remaining, or a date that does not exist
strptime(s, fmt) ==
    LET Found(m) ==
            IF ~m.ok \/ m.end # Len(s) + 1 THEN None
            ELSE date_iso(int(group(s, m, 1)), MonthOf(group(s, m, 2)), int(strip(group(s, m, 3))))
    IN  Found(match(fmt, s))

RECURSIVE ParseWith(_, _)
ParseWith(s, i) ==
    IF i > Len(DateFormats) THEN None
    ELSE or_else(strptime(s, DateFormats[i]), ParseWith(s, i + 1))
_parse_date_string(s) == ParseWith(strip(s), 1)

\* ------------------------------------------------------------------------
\* extract_lab_date
\* ------------------------------------------------------------------------
\* the label alternation of the first pattern, and that of the second and third
LabelsLong == <<<<"R", "e", "p", "o", "r", "t", " ", "D", "a", "t", "e">>, <<"C", "o", "l", "l", "e", "c", "t", "i", "o", "n", " ", "D", "a", "t", "e">>, <<"C", "o", "l", "l", "e", "c", "t", "e", "d">>, <<"S", "a", "m", "p", "l", "e", " ", "D", "a", "t", "e">>,
                <<"D", "a", "t", "e", " ", "o", "f", " ", "S", "e", "r", "v", "i", "c", "e">>, <<"R", "e", "p", "o", "r", "t", " ", "G", "e", "n", "e", "r", "a", "t", "e", "d">>, <<"O", "r", "d", "e", "r", " ", "D", "a", "t", "e">>,
                <<"S", "p", "e", "c", "i", "m", "e", "n", " ", "D", "a", "t", "e">>, <<"D", "a", "t", "e">>>>
LabelsNumeric == <<<<"R", "e", "p", "o", "r", "t", " ", "D", "a", "t", "e">>, <<"C", "o", "l", "l", "e", "c", "t", "i", "o", "n", " ", "D", "a", "t", "e">>, <<"C", "o", "l", "l", "e", "c", "t", "e", "d">>, <<"S", "a", "m", "p", "l", "e", " ", "D", "a", "t", "e">>,
                   <<"D", "a", "t", "e", " ", "o", "f", " ", "S", "e", "r", "v", "i", "c", "e">>, <<"O", "r", "d", "e", "r", " ", "D", "a", "t", "e">>, <<"S", "p", "e", "c", "i", "m", "e", "n", " ", "D", "a", "t", "e">>, <<"D", "a", "t", "e">>>>

\* \s*[:\-]?\s*
LabelSep == <<Star(Whitespace), Opt({":", "-"}), Star(Whitespace)>>
\* [A-Za-z]{3,9}\s+\d{1,2},\s+\d{4}
LongDate == <<Cls(Letters, 3, 9), Plus(Whitespace), Cls(Digits, 1, 2), One({","}),
              Plus(Whitespace), Cls(Digits, 4, 4)>>
\* \d{4}[\/\-]\d{1,2}[\/\-]\d{1,2}
YearFirstDate == <<Cls(Digits, 4, 4), One({"/", "-"}), Cls(Digits, 1, 2), One({"/", "-"}),
                   Cls(Digits, 1, 2)>>
\* \d{1,2}[\/\-]\d{1,2}[\/\-]\d{4}
DayFirstDate == <<Cls(Digits, 1, 2), One({"/", "-"}), Cls(Digits, 1, 2), One({"/", "-"}),
                  Cls(Digits, 4, 4)>>
\* (?:Jan|Feb|...|Sep|Sept|...|Dec)[a-z]*\s+\d{1,2},\s+\d{4} under IGNORECASE
BareLongDate == <<AltLitI(<<<<"J", "a", "n">>, <<"F", "e", "b">>, <<"M", "a", "r">>, <<"A", "p", "r">>, <<"M", "a", "y">>, <<"J", "u", "n">>, <<"J", "u", "l">>,
                            <<"A", "u", "g">>, <<"S", "e", "p">>, <<"S", "e", "p", "t">>, <<"O", "c", "t">>, <<"N", "o", "v">>, <<"D", "e", "c">>>>),
                  Star(Letters), Plus(Whitespace), Cls(Digits, 1, 2), One({","}),
                  Plus(Whitespace), Cls(Digits, 4, 4)>>

LabDatePatterns ==
    << [grouped |-> TRUE,
        items |-> <<AltLitI(LabelsLong)>> \o LabelSep \o <<Open(1)>> \o LongDate \o <<Close(1)>>],
       [grouped |-> TRUE,
        items |-> <<AltLitI(LabelsNumeric)>> \o LabelSep \o <<Open(1)>> \o YearFirstDate \o <<Close(1)>>],
       [grouped |-> TRUE,
        items |-> <<AltLitI(LabelsNumeric)>> \o LabelSep \o <<Open(1)>> \o DayFirstDate \o <<Close(1)>>],
       [grouped |-> FALSE, items |-> <<WB>> \o YearFirstDate \o <<WB>>],
       [grouped |-> FALSE, items |-> <<WB>> \o DayFirstDate \o <<WB>>],
       [grouped |-> FALSE, items |-> <<WB>> \o BareLongDate \o <<WB>>] >>

\* one turn of the loop: the date the pattern finds, None if it finds none
\* or _parse_date_string rejects the candidate
PatternDate(pat, text) ==
    LET Found(m) ==
            IF m.ok
            THEN _parse_date_string(IF pat.grouped THEN group(text, m, 1) ELSE group0(text, m))
            ELSE None
    IN  Found(search(pat.items, text))

RECURSIVE LabDateFrom(_, _)
LabDateFrom(text, i) ==
    IF i > Len(LabDatePatterns) THEN None
    ELSE or_else(PatternDate(LabDatePatterns[i], text), LabDateFrom(text, i + 1))
extract_lab_date(text) == LabDateFrom(text, 1)

\* ------------------------------------------------------------------------
\* extract_date_from_filename
\* ------------------------------------------------------------------------
\* os.path.basename
RECURSIVE basename(_)
basename(f) ==
    IF \E i \in 1..Len(f) : f[i] = "/"
    THEN basename(SubSeq(f, (CHOOSE i \in 1..Len(f) : f[i] = "/") + 1, Len(f)))
    ELSE f
\* os.path.splitext(b)[0]: cut at the last dot, unless only dots precede it
splitext_root(b) ==
    LET dots == {i \in 1..Len(b) : b[i] = "."}
        last == CHOOSE i \in dots : \A j \in dots : j <= i
    IN  IF dots = {} \/ \A j \in 1..(last - 1) : b[j] = "." THEN b
        ELSE SubSeq(b, 1, last - 1)
\* os.path.splitext(b)[1]
splitext_ext(b) == SubSeq(b, Len(splitext_root(b)) + 1, Len(b))

FileSep == {".", "_", "-", " "}
D2(g) == <<Open(g), Cls(Digits, 2, 2), Close(g)>>
\* \b(\d{4})[._\- ]?(\d{2})[._\- ]?(\d{2})\b
Pattern422 == <<WB, Open(1), Cls(Digits, 4, 4), Close(1), Opt(FileSep)>> \o D2(2)
              \o <<Opt(FileSep)>> \o D2(3) \o <<WB>>
\* \b(\d{2})[._\- ](\d{2})[._\- ](\d{2})\b
Pattern222Sep == <<WB>> \o D2(1) \o <<One(FileSep)>> \o D2(2) \o <<One(FileSep)>> \o D2(3) \o <<WB>>
\* \b(\d{2})(\d{2})(\d{2})\b
Pattern222 == <<WB>> \o D2(1) \o D2(2) \o D2(3) \o <<WB>>
\* \d{6}
Pattern6 == <<Cls(Digits, 6, 6)>>

\* the two readings of three 2-digit numbers: DDMMYY first, then YYMMDD
TwoDigitDate(a, b, c) == or_else(date_iso(2000 + c, b, a), date_iso(2000 + a, b, c))

\* step 1: the 4-2-2 match read as year, month, day
Date422(name_norm) ==
    LET Found(m) ==
            IF m.ok
            THEN date_iso(int(group(name_norm, m, 1)), int(group(name_norm, m, 2)),
                          int(group(name_norm, m, 3)))
            ELSE None
    IN  Found(search(Pattern422, name_norm))

\* steps 2 and 3: the 2-2-2 match read both ways
Date222(pattern, name_norm) ==
    LET Found(m) ==
            IF m.ok
            THEN TwoDigitDate(int(group(name_norm, m, 1)), int(group(name_norm, m, 2)),
                              int(group(name_norm, m, 3)))
            ELSE None
    IN  Found(search(pattern, name_norm))

\* step 4: the first 6-digit chunk that reads as a date
RECURSIVE ChunkDate(_, _)
ChunkDate(chunks, i) ==
    IF i > Len(chunks) THEN None
    ELSE or_else(TwoDigitDate(int(SubSeq(chunks[i], 1, 2)), int(SubSeq(chunks[i], 3, 4)),
                              int(SubSeq(chunks[i], 5, 6))),
                 ChunkDate(chunks, i + 1))

extract_date_from_filename(filename) ==
    LET Steps(name_norm) ==
            or_else(Date422(name_norm),
            or_else(Date222(Pattern222Sep, name_norm),
            or_else(Date222(Pattern222, name_norm),
                    ChunkDate(findall(Pattern6, name_norm), 1))))
    IN  Steps(collapse_whitespace(splitext_root(basename(filename))))

\* ------------------------------------------------------------------------
\* Identity extraction, the patient token and scrub_pii
\* ------------------------------------------------------------------------
NameChars == Letters \cup {"'", "-"}
\* (?:Patient Name|Name)\s*[:\-]?\s*([A-Za-z][A-Za-z'\-]+\s+[A-Za-z][A-Za-z'\-]+)
NamePattern == <<AltLitI(<<<<"P", "a", "t", "i", "e", "n", "t", " ", "N", "a", "m", "e">>, <<"N", "a", "m", "e">>>>)>> \o LabelSep
               \o <<Open(1), One(Letters), Plus(NameChars), Plus(Whitespace),
                    One(Letters), Plus(NameChars), Close(1)>>
\* (?:DOB|Date of Birth)\s*[:\-]?\s*([A-Za-z]{3,9}\s+\d{1,2},\s+\d{4}|\d{1,2}[\/\-]\d{1,2}[\/\-]\d{2,4})
DobPattern == <<AltLitI(<<<<"D", "O", "B">>, <<"D", "a", "t", "e", " ", "o", "f", " ", "B", "i", "r", "t", "h">>>>)>> \o LabelSep
              \o <<Open(1),
                   Alt(<<LongDate,
                         <<Cls(Digits, 1, 2), One({"/", "-"}), Cls(Digits, 1, 2),
                           One({"/", "-"}), Cls(Digits, 2, 4)>> >>),
                   Close(1)>>

_extract_name(text) ==
    LET Found(m) == IF m.ok THEN strip(group(text, m, 1)) ELSE None
    IN  Found(search(NamePattern, text))

\* m.group(1) of _extract_dob: the date of birth as the text writes it
dob_matched(text) ==
    LET Found(m) == IF m.ok THEN group(text, m, 1) ELSE None
    IN  Found(search(DobPattern, text))

_extract_dob(text) ==
    LET Found(raw) == IF raw = None THEN None ELSE or_else(_parse_date_string(raw), raw)
    IN  Found(dob_matched(text))

\* os.getenv("PATIENT_TOKEN_SALT", "bio-hacker-salt")
PATIENT_TOKEN_SALT == <<"b", "i", "o", "-", "h", "a", "c", "k", "e", "r", "-", "s", "a", "l", "t">>

\* hmac.new(salt, base, sha256).hexdigest()[:24]: one opaque character,
\* a function of salt and base alone, different for different bases
hexdigest24(salt, base) == "hmac-sha256(" \o Join(salt) \o "," \o Join(base) \o ")[:24]"

\* A derivation that prefers the random value to the composite key (the
\* operands of "or" the other way round); C3 does not survive it.
random_patient_token(name, dob, u) ==
    <<"P", "T", "_">> \o <<hexdigest24(PATIENT_TOKEN_SALT, or_else(u, strip(name \o <<"|">> \o dob)))>>

\* _stable_patient_token(name, dob); u is what str(uuid.uuid4()) returns when
\* it is called
_stable_patient_token(name, dob, u) ==
    <<"P", "T", "_">> \o <<hexdigest24(PATIENT_TOKEN_SALT, or_else(strip(name \o <<"|">> \o dob), u))>>

DOB_REDACTED == <<"D", "O", "B", "_", "R", "E", "D", "A", "C", "T", "E", "D">>

\* The vault as scrub_pii meets it: whether skyflow_client is set and
\* SKYFLOW_ENABLED, which method the client has, and what insert does:
\* raises, answers without records[0].tokens, or answers with tokens whose
\* name field is tname (None: no such field).
VaultOff == [enabled |-> FALSE, api |-> "none", resp |-> "none", tname |-> None]
VaultInsert(answer, tname) == [enabled |-> TRUE, api |-> "insert", resp |-> answer, tname |-> tname]
VaultTokenize == [enabled |-> TRUE, api |-> "tokenize", resp |-> "none", tname |-> None]

\* re.sub(re.escape(pat), rep, s) if pat else s
sub_if(s, pat, rep) == IF pat # None THEN ReplaceAll(s, pat, rep) ELSE s

\* whether the vault answered with a token for the name
VaultNamed(vault) ==
    vault.enabled /\ vault.api = "insert" /\ vault.resp = "tokens" /\ vault.tname # None

\* scrub_pii(text): (scrubbed, patient_token)
scrub_pii(text, u, vault) ==
    LET Replaced(name, dob, patient_token) ==
            [scrubbed |->
                sub_if(sub_if(sub_if(text, name, patient_token), dob, DOB_REDACTED),
                       IF VaultNamed(vault) THEN name ELSE None, vault.tname),
             patient_token |-> patient_token]
        Tokenized(name, dob) == Replaced(name, dob, _stable_patient_token(name, dob, u))
    IN  Tokenized(_extract_name(text), _extract_dob(text))

\* ------------------------------------------------------------------------
\* Bounds of the model
\* ------------------------------------------------------------------------
\* analyze requests in one behaviour
NumReq == 2
\* server processes (uvicorn workers, replicas) that share the Redis store
NumWorkers == 2
\* seconds the clock advances in one behaviour
MaxTicks == 1

Reqs == 1..NumReq
Workers == 1..NumWorkers

\* ------------------------------------------------------------------------
\* The clock: time.gmtime(), time.strftime
\* ------------------------------------------------------------------------
\* one second before midnight UTC
StartClock == [date |-> <<2024, 12, 31>>, sod |-> 86399]

NextDay(dt) ==
    IF dt[3] < DaysInMonth(dt[1], dt[2]) THEN <<dt[1], dt[2], dt[3] + 1>>
    ELSE IF dt[2] < 12 THEN <<dt[1], dt[2] + 1, 1>>
    ELSE <<dt[1] + 1, 1, 1>>
AddSecond(t) ==
    IF t.sod < 86399 THEN [t EXCEPT !.sod = t.sod + 1]
    ELSE [date |-> NextDay(t.date), sod |-> 0]
\* seconds since StartClock (the clock of a behaviour spans less than a day)
Elapsed(t) ==
    IF t.date = StartClock.date THEN t.sod - StartClock.sod
    ELSE t.sod + 86400 - StartClock.sod

\* time.strftime("%Y-%m-%d", time.gmtime())
strftime_date(t) == isoformat(t.date[1], t.date[2], t.date[3])
\* time.strftime("%Y-%m-%dT%H:%M:%SZ", time.gmtime())
strftime_utc(t) ==
    strftime_date(t) \o <<"T">> \o Pad(t.sod \div 3600, 2) \o <<":">>
    \o Pad((t.sod \div 60) % 60, 2) \o <<":">> \o Pad(t.sod % 60, 2) \o <<"Z">>
\* int(time.time() * 1000), as one opaque character
time_ms(t) == Join(strftime_utc(t)) \o ".000"

\* the date portion of an uploaded_at timestamp
DatePortion(ts) == SubSeq(ts, 1, 10)

\* the n-th value uuid.uuid4() returns in a behaviour, as one opaque
\* character: no two calls return the same value
uuid4(n) == <<"uuid4#" \o ToString(n)>>

\* ------------------------------------------------------------------------
\* Uploads
\* ------------------------------------------------------------------------
\* the end-to-end example: name, date of birth and a labeled date
DocFull ==
    [text |-> <<"P", "a", "t", "i", "e", "n", "t", " ", "N", "a", "m", "e", ":", " ", "J", "o", "h", "n", " ", "S", "m", "i", "t", "h", "\n", "D", "O", "B", ":", " ", "0", "1", "/", "0", "2", "/", "1", "9", "9", "0", "\n", "C", "o", "l", "l", "e", "c", "t", "i", "o", "n", " ", "D", "a", "t", "e", ":", " ", "M", "a", "r", "c", "h", " ", "5", ",", " ", "2", "0", "2", "4", "\n", "V", "i", "t", "a", "m", "i", "n", " ", "D", ":", " ", "2", "0", " ", "n", "g", "/", "m", "L", " ", "L", "O", "W">>,
     filename |-> <<"l", "a", "b", "s", ".", "p", "d", "f">>]
\* the same patient in another layout, the date only in the file name
DocSamePatient ==
    [text |-> <<"N", "a", "m", "e", " ", "-", " ", "J", "o", "h", "n", " ", "S", "m", "i", "t", "h", "\n", "D", "a", "t", "e", " ", "o", "f", " ", "B", "i", "r", "t", "h", ":", " ", "1", "/", "2", "/", "1", "9", "9", "0", "\n", "F", "e", "r", "r", "i", "t", "i", "n", ":", " ", "1", "5", " ", "n", "g", "/", "m", "L", " ", "L", "O", "W">>,
     filename |-> <<"r", "e", "p", "o", "r", "t", "_", "2", "0", "2", "4", "-", "0", "3", "-", "0", "5", ".", "p", "d", "f">>]
\* no identity and no date anywhere
DocAnonymous ==
    [text |-> <<"F", "e", "r", "r", "i", "t", "i", "n", ":", " ", "1", "5", " ", "n", "g", "/", "m", "L", " ", "L", "O", "W">>, filename |-> <<"r", "e", "p", "o", "r", "t", ".", "p", "d", "f">>]
Docs == <<DocFull, DocSamePatient, DocAnonymous>>

\* what ingestion does with an upload: the copy to disk fails (HTTP 500),
\* pdfplumber cannot open it, or its text is extracted
IngestOutcomes == {"ok", "save_failed", "pdf_unreadable"}

\* what the vault path of scrub_pii meets on one call
VaultToken == <<"V", "T", "_", "1">>
VaultOutcomes == {VaultOff, VaultInsert("tokens", VaultToken), VaultInsert("tokens", None),
                  VaultInsert("malformed", None), VaultInsert("raise", None), VaultTokenize}

\* ------------------------------------------------------------------------
\* The analysis collaborator's answers, as json.loads returns them
\* ------------------------------------------------------------------------
VitaminD == [name |-> "Vitamin D", value |-> 20, unit |-> "ng/mL", flag |-> "LOW"]
Ferritin == [name |-> "Ferritin", value |-> 15, unit |-> "ng/mL", flag |-> "LOW"]
Glucose == [name |-> "Glucose", value |-> 90, unit |-> "mg/dL", flag |-> "NORMAL"]
\* an item flagged abnormal that carries no name
Nameless == [value |-> 7, unit |-> "mg/dL", flag |-> "HIGH"]

JsonObject(fields) == [type |-> "object", fields |-> fields]
JsonArray(items) == [type |-> "array", items |-> items]

\* the fallback of the except branch
MockAnalysis == JsonObject([biomarkers |-> <<VitaminD, Ferritin>>])

\* "raise": messages.create raises or its text is no JSON; otherwise the
\* parsed value
AnalysisOutcomes ==
    { [kind |-> "raise"],
      [kind |-> "json", value |-> JsonObject([biomarkers |-> <<Glucose>>])],
      [kind |-> "json", value |-> JsonObject([summary |-> "ok"])],
      [kind |-> "json", value |-> JsonArray(<<VitaminD>>)],
      [kind |-> "json", value |-> JsonObject([biomarkers |-> <<Nameless>>])] }

\* search_medical_advice(biomarker, value, direction): the request to the
\* research service is commented out, so the answer is canned
search_medical_advice(key, biomarker, value, direction) ==
    IF ~key THEN "Parallel.ai API Key missing - skipping live search."
    ELSE <<"Recent 2025 study suggests increasing magnesium intake for " \o biomarker \o ".">>

\* the loop over analysis.get('biomarkers', []): [ok |-> FALSE] where it
\* raises (analysis is no object, or a flagged item has no name or value)
HasKey(d, k) == k \in DOMAIN d
dict_get(d, k, default) == IF HasKey(d, k) THEN d[k] ELSE default
Researched(key, item) ==
    IF dict_get(item, "flag", "") \in {"HIGH", "LOW"}
    THEN [k \in DOMAIN item \cup {"research_notes"} |->
            IF k = "research_notes"
            THEN search_medical_advice(key, item["name"], item["value"], item["flag"])
            ELSE item[k]]
    ELSE item
ResearchRaises(item) ==
    dict_get(item, "flag", "") \in {"HIGH", "LOW"} /\ ~(HasKey(item, "name") /\ HasKey(item, "value"))
research_loop(key, analysis) ==
    IF analysis.type # "object" THEN [ok |-> FALSE, analysis |-> analysis]
    ELSE LET items == dict_get(analysis.fields, "biomarkers", << >>)
         IN  IF \E i \in 1..Len(items) : ResearchRaises(items[i])
             THEN [ok |-> FALSE, analysis |-> analysis]
             ELSE [ok |-> TRUE,
                   analysis |-> IF HasKey(analysis.fields, "biomarkers")
                                THEN JsonObject([analysis.fields EXCEPT
                                        !["biomarkers"] = [i \in 1..Len(items) |-> Researched(key, items[i])]])
                                ELSE analysis]

\* ------------------------------------------------------------------------
\* State
\* ------------------------------------------------------------------------
VARIABLES
    now,            \* the system clock (UTC)
    parallel_key,   \* whether PARALLEL_API_KEY is set
    store,          \* the Redis store r: history key -> the list stored under it
    uuid_calls,     \* how many values uuid.uuid4() has returned
    pc,             \* where each analyze request stands
    worker,         \* the server process that runs each request (0: none yet)
    loc,            \* the local variables of each analyze request
    resp,           \* the HTTP response of each analyze request
    saved,          \* the requests whose r.set returned (the others print "save skipped")
    history_resp,   \* the last response of GET /history/{patient_token}
    arg,            \* the arguments of a function applied on its own
    ret             \* and what it returned

vars == <<now, parallel_key, store, uuid_calls, pc, worker, loc, resp, saved, history_resp, arg, ret>>
pipeline_vars == <<now, parallel_key, store, uuid_calls, pc, worker, loc, resp, saved, history_resp>>

\* a request between its first statement and its return (or its exception)
InFlight == {"recall", "analyze", "save"}

NoLocals ==
    [doc |-> 0, original_filename |-> None, stored_filename |-> None, lab_date |-> None,
     uploaded_at |-> None, safe_text |-> None, patient_token |-> None, history_key |-> None,
     history_list |-> << >>, context |-> "PREVIOUS_DATA: None", analysis |-> JsonObject(<< >>),
     new_entry |-> << >>]
NoResponse == [status |-> 0]
Pending == [done |-> FALSE]

\* r.get(key), json.loads'ed: None (no such key) reads as the empty list
r_get(st, key) == IF key \in DOMAIN st THEN st[key] ELSE << >>
\* A write that appends the request's entry to what the store holds at the
\* time of the write (an atomic RPUSH); C8 does not survive it.
r_push(st, key, history_list) ==
    (key :> Append(r_get(st, key), history_list[Len(history_list)])) @@ st
\* the store after r.set(key, json.dumps(history_list))
r_set(st, key, history_list) == (key :> history_list) @@ st

\* f"patient:{patient_token}:history"
history_key_of(patient_token) == <<"p", "a", "t", "i", "e", "n", "t", ":">> \o patient_token \o <<":", "h", "i", "s", "t", "o", "r", "y">>

\* lines 376-378 of analyze: the date of the text, else that of the file name
resolve_lab_date(raw_text, original_filename) ==
    or_else(extract_lab_date(raw_text), extract_date_from_filename(original_filename))

\* the locals once scrub_pii has returned (safe_text, patient_token) and the
\* history key is built
with_scrubbed(locals, scrubbed) ==
    [locals EXCEPT !.safe_text = scrubbed.scrubbed,
                   !.patient_token = scrubbed.patient_token,
                   !.history_key = history_key_of(scrubbed.patient_token)]

\* whether _stable_patient_token calls uuid.uuid4() for this text
CallsUuid(text) == strip(_extract_name(text) \o <<"|">> \o _extract_dob(text)) = << >>

\* file.filename or "report.pdf"
original_filename_of(d) == IF Docs[d].filename # None THEN Docs[d].filename ELSE <<"r", "e", "p", "o", "r", "t", ".", "p", "d", "f">>

\* What the pure functions of analyze return for every upload of Docs, every
\* value uuid.uuid4() can return and every vault outcome, computed once.
UuidValues == 1..(2 * NumReq)
lab_date_of == [d \in 1..Len(Docs) |-> resolve_lab_date(Docs[d].text, original_filename_of(d))] @@ << >>
calls_uuid == [d \in 1..Len(Docs) |-> CallsUuid(Docs[d].text)] @@ << >>
scrubbed_of ==
    [x \in (1..Len(Docs)) \X UuidValues \X VaultOutcomes |->
        scrub_pii(Docs[x[1]].text, uuid4(x[2]), x[3])] @@ << >>

PipelineInit ==
    /\ now = StartClock
    /\ parallel_key \in BOOLEAN
    /\ store = << >>
    /\ uuid_calls = 0
    /\ pc = [r \in Reqs |-> "idle"]
    /\ worker = [r \in Reqs |-> 0]
    /\ loc = [r \in Reqs |-> NoLocals]
    /\ resp = [r \in Reqs |-> NoResponse]
    /\ saved = {}
    /\ history_resp = NoResponse

Init ==
    /\ PipelineInit
    /\ arg = [kind |-> "none"]
    /\ ret = Pending

\* ------------------------------------------------------------------------
\* POST /analyze_bloodwork (and its alias /analyze): one action per stretch
\* of analyze between two calls that leave the process
\* ------------------------------------------------------------------------
\* From the first statement to r.get: ingestion, the lab date, uploaded_at
\* and scrub_pii.  A process runs one request at a time: analyze is a
\* coroutine that never awaits.
Begin(r, d, w, ingest, vault) ==
    /\ pc[r] = "idle"
    /\ \A q \in Reqs : q < r => pc[q] # "idle"
    /\ \A v \in Workers : v < w => \E q \in Reqs : worker[q] = v
    /\ \A q \in Reqs : worker[q] = w => pc[q] \notin InFlight
    /\ LET original_filename == original_filename_of(d)
           ext == IF splitext_ext(original_filename) # None
                  THEN splitext_ext(original_filename) ELSE <<".", "p", "d", "f">>
           stored_filename == <<time_ms(now)>> \o <<"-">> \o uuid4(uuid_calls + 1) \o ext
       IN  /\ worker' = [worker EXCEPT ![r] = w]
           /\ IF ingest # "ok"
              THEN /\ pc' = [pc EXCEPT ![r] = "rejected"]
                   /\ resp' = [resp EXCEPT ![r] = [status |-> 500]]
                   /\ uuid_calls' = uuid_calls + 1
                   /\ loc' = [loc EXCEPT ![r] = [@ EXCEPT !.doc = d,
                                !.original_filename = original_filename,
                                !.stored_filename = stored_filename]]
              ELSE /\ pc' = [pc EXCEPT ![r] = "recall"]
                   /\ resp' = resp
                   /\ uuid_calls' = uuid_calls + (IF calls_uuid[d] THEN 2 ELSE 1)
                   /\ loc' = [loc EXCEPT ![r] = with_scrubbed(
                                [@ EXCEPT !.doc = d,
                                    !.original_filename = original_filename,
                                    !.stored_filename = stored_filename,
                                    !.lab_date = lab_date_of[d],
                                    !.uploaded_at = strftime_utc(now)],
                                scrubbed_of[<<d, uuid_calls + 2, vault>>])]
    /\ UNCHANGED <<now, parallel_key, store, saved, history_resp, arg, ret>>

\* r.get returns or raises; then the context for the analysis call
Recall(r, outcome) ==
    /\ pc[r] = "recall"
    /\ LET history_list == IF outcome = "ok" THEN r_get(store, loc[r].history_key) ELSE << >>
           context == IF history_list # << >>
                      THEN <<"PREVIOUS_DATA: ", history_list[Len(history_list)].biomarkers>>
                      ELSE "PREVIOUS_DATA: None"
       IN  loc' = [loc EXCEPT ![r] = [@ EXCEPT !.history_list = history_list, !.context = context]]
    /\ pc' = [pc EXCEPT ![r] = "analyze"]
    /\ UNCHANGED <<now, parallel_key, store, uuid_calls, worker, resp, saved, history_resp, arg, ret>>

\* anthropic.messages.create returns or raises; then the research loop, the
\* new entry and its append to history_list, up to r.set
Analyze(r, a) ==
    /\ pc[r] = "analyze"
    /\ LET analysis == IF a.kind = "raise" THEN MockAnalysis ELSE a.value
           looped == research_loop(parallel_key, analysis)
           new_entry ==
               [lab_date |-> IF loc[r].lab_date # None THEN loc[r].lab_date ELSE strftime_date(now),
                uploaded_at |-> loc[r].uploaded_at,
                original_filename |-> loc[r].original_filename,
                file_url |-> <<"/", "f", "i", "l", "e", "s", "/">> \o loc[r].stored_filename,
                biomarkers |-> dict_get(looped.analysis.fields, "biomarkers", << >>)]
       IN  IF ~looped.ok
           THEN /\ pc' = [pc EXCEPT ![r] = "crashed"]
                /\ resp' = [resp EXCEPT ![r] = [status |-> 500]]
                /\ loc' = [loc EXCEPT ![r] = [@ EXCEPT !.analysis = analysis]]
           ELSE /\ pc' = [pc EXCEPT ![r] = "save"]
                /\ resp' = resp
                /\ loc' = [loc EXCEPT ![r] = [@ EXCEPT !.analysis = looped.analysis,
                             !.new_entry = new_entry,
                             !.history_list = Append(@, new_entry)]]
    /\ UNCHANGED <<now, parallel_key, store, uuid_calls, worker, saved, history_resp, arg, ret>>

\* r.set returns or raises; then the response
Save(r, outcome) ==
    /\ pc[r] = "save"
    /\ store' = IF outcome = "ok" THEN r_set(store, loc[r].history_key, loc[r].history_list)
                ELSE store
    /\ saved' = IF outcome = "ok" THEN saved \cup {r} ELSE saved
    /\ pc' = [pc EXCEPT ![r] = "done"]
    /\ resp' = [resp EXCEPT ![r] =
            [status |-> 200,
             patient |-> loc[r].patient_token,
             analysis |-> loc[r].analysis,
             original_filename |-> loc[r].original_filename,
             uploaded_at |-> loc[r].uploaded_at,
             lab_date |-> IF loc[r].lab_date # None THEN loc[r].lab_date ELSE strftime_date(now),
             file_url |-> <<"/", "f", "i", "l", "e", "s", "/">> \o loc[r].stored_filename]]
    /\ UNCHANGED <<now, parallel_key, uuid_calls, worker, loc, history_resp, arg, ret>>

\* a second passes
Tick ==
    /\ Elapsed(now) < MaxTicks
    /\ now' = AddSecond(now)
    /\ UNCHANGED <<parallel_key, store, uuid_calls, pc, worker, loc, resp, saved, history_resp, arg, ret>>

\* GET /history/{patient_token}
UnknownToken == <<"P", "T", "_">> \o <<"000000000000000000000000">>
get_history(patient_token, outcome) ==
    /\ history_resp' =
            [status |-> 200,
             patient |-> patient_token,
             history |-> IF outcome = "ok" THEN r_get(store, history_key_of(patient_token)) ELSE << >>]
    /\ UNCHANGED <<now, parallel_key, store, uuid_calls, pc, worker, loc, resp, saved, arg, ret>>

StoreOutcomes == {"ok", "unreachable"}
KnownTokens == {loc[r].patient_token : r \in {q \in Reqs : loc[q].patient_token # None}}

\* requests served by any number of processes that share the store
Next ==
    \/ \E r \in Reqs, d \in 1..Len(Docs), w \in Workers, i \in IngestOutcomes, v \in VaultOutcomes :
            Begin(r, d, w, i, v)
    \/ \E r \in Reqs, o \in StoreOutcomes : Recall(r, o)
    \/ \E r \in Reqs, a \in AnalysisOutcomes : Analyze(r, a)
    \/ \E r \in Reqs, o \in StoreOutcomes : Save(r, o)
    \/ Tick

Spec == Init /\ [][Next]_vars

\* requests executed one after another, and reads of the history between them
SeqBegin(r, d, i, v) ==
    /\ \A q \in Reqs : pc[q] \notin InFlight
    /\ Begin(r, d, 1, i, v)

SeqNext ==
    \/ \E r \in Reqs, d \in 1..Len(Docs), i \in IngestOutcomes, v \in VaultOutcomes :
            SeqBegin(r, d, i, v)
    \/ \E r \in Reqs, o \in StoreOutcomes : Recall(r, o)
    \/ \E r \in Reqs, a \in AnalysisOutcomes : Analyze(r, a)
    \/ \E r \in Reqs, o \in StoreOutcomes : Save(r, o)
    \/ \E t \in KnownTokens \cup {UnknownToken}, o \in StoreOutcomes : get_history(t, o)
    \/ Tick

SeqSpec == Init /\ [][SeqNext]_vars

\* ------------------------------------------------------------------------
\* The date resolver applied on its own
\* ------------------------------------------------------------------------
LabeledDates == <<<<"M", "a", "r", "c", "h", " ", "5", ",", " ", "2", "0", "2", "4">>, <<"2", "0", "2", "4", "-", "0", "3", "-", "0", "5">>, <<"0", "3", "/", "0", "5", "/", "2", "0", "2", "4">>>>
BareDates == <<<<"J", "a", "n", " ", "1", ",", " ", "2", "0", "2", "3">>, <<"2", "0", "2", "3", "-", "0", "1", "-", "0", "1">>, <<"0", "1", "/", "0", "1", "/", "2", "0", "2", "3">>>>
\* a text with a date after a label and an unrelated date before or after it
LabeledText(label, date, bare, bareFirst) ==
    IF bareFirst
    THEN <<"P", "r", "i", "n", "t", "e", "d", " ">> \o bare \o <<"\n">> \o label \o <<":", " ">> \o date \o <<"\n", "F", "e", "r", "r", "i", "t", "i", "n", " ", "1", "5">>
    ELSE label \o <<":", " ">> \o date \o <<"\n", "P", "r", "i", "n", "t", "e", "d", " ">> \o bare \o <<"\n", "F", "e", "r", "r", "i", "t", "i", "n", " ", "1", "5">>

FilePrefixes == <<<<>>, <<"r", "e", "p", "o", "r", "t", " ">>, <<"r", "e", "p", "o", "r", "t", "_">>, <<"l", "a", "b">>>>
FileSuffixes == <<<<>>, <<" ", "f", "i", "n", "a", "l">>, <<"_", "v", "2">>, <<"a">>>>
FileSeps == <<<<>>, <<".">>, <<"_">>, <<"-">>, <<" ">>>>
UndatedTexts == <<<<>>, <<"F", "e", "r", "r", "i", "t", "i", "n", ":", " ", "1", "5", " ", "n", "g", "/", "m", "L", " ", "L", "O", "W">>>>
\* a file name whose stem holds year, month and day
DatedFilename(prefix, y, sep, m, d, suffix) ==
    prefix \o y \o sep \o m \o sep \o d \o suffix \o <<".", "p", "d", "f">>

DateInputs ==
    { [kind |-> "labeled",
       text |-> LabeledText(LabelsLong[l], LabeledDates[f], BareDates[b], first),
       filename |-> <<"r", "e", "p", "o", "r", "t", ".", "p", "d", "f">>,
       expect |-> <<"2", "0", "2", "4", "-", "0", "3", "-", "0", "5">>] :
         l \in 1..Len(LabelsLong), f \in 1..Len(LabeledDates), b \in 1..Len(BareDates),
         first \in BOOLEAN }
    \cup
    { [kind |-> "filename",
       text |-> UndatedTexts[t],
       filename |-> DatedFilename(FilePrefixes[p], <<"2", "0", "2", "4">>, FileSeps[s], <<"0", "3">>, <<"0", "5">>, FileSuffixes[x]),
       expect |-> <<"2", "0", "2", "4", "-", "0", "3", "-", "0", "5">>] :
         t \in 1..Len(UndatedTexts), p \in 1..Len(FilePrefixes), s \in 1..Len(FileSeps),
         x \in 1..Len(FileSuffixes) }

DateInit ==
    /\ PipelineInit
    /\ parallel_key = FALSE
    /\ arg \in DateInputs
    /\ ret = Pending

\* extract_lab_date, and the fallback chain of analyze up to the file name
ResolveDate ==
    /\ ~ret.done
    /\ arg.kind \in {"labeled", "filename"}
    /\ ret' = [done |-> TRUE,
               text_date |-> extract_lab_date(arg.text),
               lab_date |-> resolve_lab_date(arg.text, arg.filename)]
    /\ UNCHANGED <<pipeline_vars, arg>>

DateNext == ResolveDate
DateSpec == DateInit /\ [][DateNext]_vars

\* ------------------------------------------------------------------------
\* scrub_pii applied on its own
\* ------------------------------------------------------------------------
NameLines == <<<<>>, <<"P", "a", "t", "i", "e", "n", "t", " ", "N", "a", "m", "e", ":", " ", "J", "a", "n", "e", " ", "D", "o", "e", "\n">>, <<"n", "a", "m", "e", " ", "-", " ", "M", "a", "r", "y", "-", "A", "n", "n", " ", "O", "'", "N", "e", "i", "l", "\n">>,
               <<"N", "a", "m", "e", ":", " ", "J", "a", "n", "e", " ", "D", "o", "e", "\n", "R", "e", "v", "i", "e", "w", "e", "d", " ", "b", "y", " ", "J", "a", "n", "e", " ", "D", "o", "e", ".", "\n">>>>
DobLines == <<<<>>, <<"D", "O", "B", ":", " ", "0", "1", "/", "0", "2", "/", "1", "9", "9", "0", "\n">>, <<"D", "O", "B", ":", " ", "1", "/", "2", "/", "9", "0", "\n">>, <<"D", "a", "t", "e", " ", "o", "f", " ", "B", "i", "r", "t", "h", " ", "-", " ", "M", "a", "r", "c", "h", " ", "5", ",", " ", "1", "9", "9", "0", "\n">>,
              <<"d", "o", "b", ":", " ", "1", "3", "-", "0", "2", "-", "1", "9", "9", "0", ",", " ", "b", "o", "r", "n", " ", "1", "3", "-", "0", "2", "-", "1", "9", "9", "0", "\n">>, <<"D", "O", "B", ":", " ", "S", "m", "a", "r", "c", "h", " ", "5", ",", " ", "1", "9", "9", "0", "\n">>>>
BodyLines == <<<<"V", "i", "t", "a", "m", "i", "n", " ", "D", ":", " ", "2", "0", " ", "n", "g", "/", "m", "L", " ", "L", "O", "W">>, <<>>>>

ScrubInputs ==
    { [kind |-> "scrub",
       text |-> NameLines[n] \o DobLines[b] \o BodyLines[t],
       u |-> uuid4(1),
       vault |-> v] :
         n \in 1..Len(NameLines), b \in 1..Len(DobLines), t \in 1..Len(BodyLines),
         v \in VaultOutcomes }

ScrubInit ==
    /\ PipelineInit
    /\ parallel_key = FALSE
    /\ arg \in ScrubInputs
    /\ ret = Pending

Scrub ==
    /\ ~ret.done
    /\ arg.kind = "scrub"
    /\ LET out == scrub_pii(arg.text, arg.u, arg.vault)
       IN  ret' = [done |-> TRUE, scrubbed |-> out.scrubbed, patient_token |-> out.patient_token]
    /\ UNCHANGED <<pipeline_vars, arg>>

ScrubNext == Scrub
ScrubSpec == ScrubInit /\ [][ScrubNext]_vars

\* ------------------------------------------------------------------------
\* Properties
\* ------------------------------------------------------------------------
Range(s) == {s[i] : i \in 1..Len(s)}
\* the identity fields of each upload
DocIdentity == [d \in 1..Len(Docs) |->
                  [name |-> _extract_name(Docs[d].text), dob |-> _extract_dob(Docs[d].text)]] @@ << >>
\* the requests that got past scrub_pii
Scrubbed == {r \in Reqs : loc[r].patient_token # None}

\* C1: the text scrub_pii returns contains neither the name _extract_name
\* matched nor the date of birth as the text writes it.
C1_NoVerbatimIdentity ==
    (ret.done /\ arg.kind = "scrub") =>
        LET name == _extract_name(arg.text)
            dob == dob_matched(arg.text)
        IN  /\ name # None => ~Contains(ret.scrubbed, name)
            /\ dob # None => ~Contains(ret.scrubbed, dob)

\* C2: with requests one after another, every step leaves the history of a
\* token as it was or appends one request's new entry to it, and GET /history
\* of an unknown token answers the empty list.
C2_AppendOnlyHistory ==
    [][ /\ \A k \in DOMAIN store : k \in DOMAIN store'
        /\ \A k \in DOMAIN store' :
              \/ store'[k] = r_get(store, k)
              \/ \E r \in Reqs : store'[k] = Append(r_get(store, k), loc[r].new_entry)
        /\ (history_resp'.status = 200 /\ history_resp'.patient = UnknownToken)
              => history_resp'.history = << >>
      ]_vars

\* C3: two requests whose texts yield the same non-empty (name, dob) pair
\* get the same patient token and the same history key.
C3_SameIdentitySameToken ==
    \A r1, r2 \in Scrubbed :
        LET id1 == DocIdentity[loc[r1].doc]
            id2 == DocIdentity[loc[r2].doc]
        IN  (id1 = id2 /\ (id1.name # None \/ id1.dob # None)) =>
                /\ loc[r1].patient_token = loc[r2].patient_token
                /\ loc[r1].history_key = loc[r2].history_key
\* two requests for different uploads of the same patient
C3_Witness ==
    \E r1, r2 \in Scrubbed :
        /\ loc[r1].doc # loc[r2].doc
        /\ DocIdentity[loc[r1].doc] = DocIdentity[loc[r2].doc]
        /\ DocIdentity[loc[r1].doc].name # None
        /\ DocIdentity[loc[r1].doc].dob # None
        /\ loc[r1].history_key = loc[r2].history_key

\* C4: a valid date after a label of the vocabulary wins over an unrelated
\* bare date before or after it, for every label and both date forms.
C4_LabeledDateWins ==
    (ret.done /\ arg.kind = "labeled") => ret.text_date = arg.expect

\* C5: with no date in the text, a file name whose stem holds year, month
\* and day (separated by '.', '_', '-', a space or nothing) resolves to that
\* date, also when an underscore or a letter is next to the digits.
C5_FilenameDateResolves ==
    (ret.done /\ arg.kind = "filename" /\ ret.text_date = None) => ret.lab_date = arg.expect

\* C6: once the text is extracted no outcome of an external call fails the
\* request.
C6_NeverFails == \A r \in Reqs : pc[r] # "crashed"

\* C7: two requests for uploads without name and date of birth get
\* different patient tokens and different history keys.
C7_AnonymousTokensDiffer ==
    \A r1, r2 \in Scrubbed :
        (/\ r1 # r2
         /\ DocIdentity[loc[r1].doc] = [name |-> None, dob |-> None]
         /\ DocIdentity[loc[r2].doc] = [name |-> None, dob |-> None]) =>
            /\ loc[r1].patient_token # loc[r2].patient_token
            /\ loc[r1].history_key # loc[r2].history_key

\* C8: of two requests for one token that each built their list without the
\* other's entry (each read before the other wrote), the stored history never
\* holds both entries: one write discards the other's.
Appended == {r \in Reqs : pc[r] \in {"save", "done"}}
C9_FallbackIsUploadDate ==
    \A r \in Reqs :
        (pc[r] = "done" /\ loc[r].lab_date = None) =>
            /\ loc[r].new_entry.lab_date = DatePortion(loc[r].uploaded_at)
            /\ resp[r].lab_date = DatePortion(loc[r].uploaded_at)

\* C10: when the vault's insert answers with a token for the name, every
\* place of the name in the text holds that token, not the patient token.
C10_VaultTokenReplacesName ==
    (/\ ret.done /\ arg.kind = "scrub"
     /\ arg.vault.enabled /\ arg.vault.api = "insert" /\ arg.vault.resp = "tokens"
     /\ arg.vault.tname # None
     /\ _extract_name(arg.text) # None) =>
        /\ Count(ret.scrubbed, arg.vault.tname) = Count(arg.text, _extract_name(arg.text))
        /\ ~Contains(ret.scrubbed, ret.patient_token)
====
